---- MODULE Spec2Model ----
(***************************************************************************)
(* Job orchestration of the megaconvert server (server/routes/converter.js *)
(* and the converter capabilities it dispatches to).                       *)
(*                                                                         *)
(* The job table, the artifacts on storage, the position of every          *)
(* runConversionJob invocation and of every in-flight cancel and download  *)
(* handler are the state.  One action is one synchronous stretch of a      *)
(* handler (from one await to the next).                                   *)
(***************************************************************************)
EXTENDS Integers, Sequences, FiniteSets, TLC

\* Number of job ids the model lets crypto.randomUUID() hand out.
MaxJobs == 1

JobIds == 1..MaxJobs

\* null / undefined, and a present value v of a nullable field.
Null == <<>>

Some(v) == <<v>>

(***************************************************************************)
(* Capability format sets.                                                 *)
(***************************************************************************)
AudioInputs == {"mp3", "wav", "ogg", "m4a", "flac", "aac", "wma", "aiff", "opus"}

AudioOutputs == {"mp3", "wav", "ogg", "m4a", "flac", "aac", "opus"}

ImageInputs == {"jpg", "jpeg", "png", "webp", "gif", "bmp", "tif", "tiff", "svg", "ico", "heic"}

ImageOutputs == {"jpg", "jpeg", "png", "webp", "gif", "bmp", "tif", "tiff", "ico", "avif"}

DocumentInputs == {"pdf", "docx", "doc", "txt", "rtf", "odt", "html", "htm", "epub"}

DocumentOutputs == {"pdf", "docx", "txt", "html", "epub"}

ArchiveInputs == {"zip", "7z", "rar", "tar", "gz", "bz2", "xz"}

ArchiveOutputs == {"zip", "7z", "tar", "gz", "bz2", "xz"}

PresentationInputs == {"pptx", "ppt", "odp", "key", "pdf"}

PresentationOutputs == {"pptx", "pdf", "odp", "html"}

FontInputs == {"ttf", "otf", "woff", "woff2", "eot"}

FontOutputs == {"ttf", "otf", "woff", "woff2"}

EbookInputs == {"epub", "mobi", "azw3", "pdf", "txt", "html"}

EbookOutputs == {"epub", "pdf", "mobi", "txt"}

(***************************************************************************)
(* Inputs of a submission.                                                 *)
(***************************************************************************)
\* Extensions of uploaded files, as written by the client ("" : no extension).
UploadExts ==
    {"mp3", "png", "pdf", "PDF", "docx", "epub", "Epub", "txt", "html", "zip", "pptx", "ttf",
     "mobi", "xyz"}

\* String(req.body.outputFormat || '').toLowerCase() of the requests submitted.
OutputFormats == {"", "mp3", "png", "pdf", "zip", "ttf", "html"}

\* Date.now() - started, in milliseconds, as read by a progress callback.
ElapsedMs == {0, 2000}

\* The percentage an engine progress event carries (Null: not a number).
EnginePercents ==
    {Null, Some(-140), Some(-20), Some(0), Some(30), Some(60), Some(100), Some(140)}

\* err.message of an engine failure ("" : an error without a message).
EngineMessages == {"", "engine failed"}

(***************************************************************************)
(* ext and detectCategory.                                                 *)
(***************************************************************************)
toLowerCase(s) == IF s = "PDF" THEN "pdf" ELSE IF s = "Epub" THEN "epub" ELSE s

ext(e) == toLowerCase(e)

\* A detection that asks the ebook capability before the document capability.
detectCategory_EbookFirst(e) ==
    IF ext(e) \in AudioInputs THEN "audio"
    ELSE IF ext(e) \in ImageInputs THEN "image"
    ELSE IF ext(e) \in EbookInputs THEN "ebook"
    ELSE IF ext(e) \in DocumentInputs THEN "document"
    ELSE IF ext(e) \in ArchiveInputs THEN "archive"
    ELSE IF ext(e) \in PresentationInputs THEN "presentation"
    ELSE IF ext(e) \in FontInputs THEN "font"
    ELSE "unknown"

detectCategory(e) ==
    IF ext(e) \in AudioInputs THEN "audio"
    ELSE IF ext(e) \in ImageInputs THEN "image"
    ELSE IF ext(e) \in DocumentInputs THEN "document"
    ELSE IF ext(e) \in ArchiveInputs THEN "archive"
    ELSE IF ext(e) \in PresentationInputs THEN "presentation"
    ELSE IF ext(e) \in FontInputs THEN "font"
    ELSE IF ext(e) \in EbookInputs THEN "ebook"
    ELSE "unknown"

\* Math.max and Math.min of two numbers
Max(a, b) == IF a >= b THEN a ELSE b

Min(a, b) == IF a <= b THEN a ELSE b

(***************************************************************************)
(* parsePageRange and the page selection of a PDF to PDF conversion.       *)
(* A range string is the sequence of its chunks, the pieces between its    *)
(* commas: "a-b" (spaces allowed around the dash), an integer, a blank     *)
(* piece of a given number of spaces, or other text.  The empty string is  *)
(* the single chunk of no space; an absent pageRange is Null.              *)
(***************************************************************************)
MaxChunks == 4

Pair(a, b) == [kind |-> "pair", a |-> a, b |-> b]

Single(p) == [kind |-> "int", a |-> p, b |-> p]

Blank(n) == [kind |-> "blank", a |-> n, b |-> 0]

Text == [kind |-> "text", a |-> 0, b |-> 0]

\* A chunk that is neither an integer nor a pair but begins with the digits
\* of p, such as '3x', '3.5' or '3-4-5'.
Prefixed(p) == [kind |-> "prefixed", a |-> p, b |-> p]

Chunks ==
    {Pair(3, 1), Pair(1, 3), Pair(4, 12), Single(5), Single(2), Single(0),
     Blank(0), Blank(1), Text, Prefixed(3)}

RangeStrings == {Null} \cup UNION {[1..n -> Chunks] : n \in 1..MaxChunks}

\* getPageCount() of the source documents (0: the totalPages test is off).
PageCounts == {0, 1, 3, 10}

\* !rangeStr || !String(rangeStr).trim()
IsBlankString(str) == str = Null \/ (Len(str) = 1 /\ str[1].kind = "blank")

\* A string is truthy unless it is absent or empty.
Truthy(str) == str # Null /\ str # <<Blank(0)>>

\* p >= 1 && (!totalPages || p <= totalPages)
InRange(p, totalPages) == p >= 1 /\ (totalPages = 0 \/ p <= totalPages)

\* A set.add that keeps what is already there twice.
SetAdd_Dup(set, p) == Append(set, p)

\* set.add(p): a Set keeps its members in the order of their insertion.
SetAdd(set, p) == IF \E i \in DOMAIN set : set[i] = p THEN set ELSE Append(set, p)

RECURSIVE AddRange(_, _, _, _)
\* for (let p = start; p <= end; p++) if (in range) set.add(p)
AddRange(set, p, end, totalPages) ==
    IF p > end THEN set
    ELSE AddRange(IF InRange(p, totalPages) THEN SetAdd(set, p) ELSE set, p + 1, end, totalPages)

\* The body of the loop over the chunks, for one chunk.
AddChunk(set, chunk, totalPages) ==
    CASE chunk.kind = "pair" ->
            AddRange(set, Min(chunk.a, chunk.b), Max(chunk.a, chunk.b), totalPages)
      [] chunk.kind \in {"int", "prefixed"} ->
            \* parseInt(chunk, 10) reads the leading digits
            IF InRange(chunk.a, totalPages) THEN SetAdd(set, chunk.a) ELSE set
      [] OTHER -> set

RECURSIVE AddChunks(_, _, _)
\* The loop over the chunks; filter(Boolean) has dropped the blank ones.
AddChunks(set, chunks, totalPages) ==
    IF chunks = <<>> THEN set
    ELSE AddChunks(IF Head(chunks).kind = "blank" THEN set
                   ELSE AddChunk(set, Head(chunks), totalPages),
                   Tail(chunks), totalPages)

RECURSIVE Insert(_, _)
Insert(sorted, p) ==
    IF sorted = <<>> THEN <<p>>
    ELSE IF p - Head(sorted) < 0 THEN <<p>> \o sorted
    ELSE <<Head(sorted)>> \o Insert(Tail(sorted), p)

\* A sort that leaves the array in the order of insertion.
Sort_None(list) == list

RECURSIVE Sort(_)
\* .sort((a, b) => a - b)
Sort(list) == IF list = <<>> THEN <<>> ELSE Insert(Sort(Tail(list)), Head(list))

parsePageRange(rangeStr, totalPages) ==
    IF IsBlankString(rangeStr) THEN <<>>
    ELSE Sort(AddChunks(<<>>, rangeStr, totalPages))

\* A copy that keeps no page.
AllPages_None(total) == <<>>

\* Every page of the source, in order: Array.from({ length: total }, (_, i) => i + 1)
AllPages(total) == [i \in 1..total |-> i]

\* The pages of the document subsetPdf writes.
subsetPdf(pages, total) ==
    LET selected == IF Len(pages) > 0 THEN pages ELSE AllPages(total)
    IN  SelectSeq(selected, LAMBDA q : q - 1 >= 0 /\ q - 1 < total)

\* The pages of the output of convertDocument for a PDF input and output.
PdfToPdfPages(pageRange, total) ==
    LET pages == IF Truthy(pageRange) THEN parsePageRange(pageRange, total) ELSE <<>>
    IN  IF Len(pages) > 0 THEN subsetPdf(pages, total) ELSE AllPages(total)

(***************************************************************************)
(* PDF documents and the page operations.  A document is the sequence of   *)
(* its pages; a page is named after the document it was first part of.     *)
(***************************************************************************)
Doc(name, n) == [k \in 1..n |-> <<name, k>>]

\* A copy that takes the selected pages in the order of the source.
CopyPages_SourceOrder(srcDoc, pageNumbers) ==
    SelectSeq(srcDoc, LAMBDA pg : \E i \in DOMAIN pageNumbers : srcDoc[pageNumbers[i]] = pg)

\* dstDoc.copyPages(srcDoc, zeroBased) and addPage of each copy, in order.
CopyPages(srcDoc, pageNumbers) == [i \in 1..Len(pageNumbers) |-> srcDoc[pageNumbers[i]]]

\* The document subsetPdf(inputPdf, outputPdf, pages) writes.
SubsetDocument(srcDoc, pages) == CopyPages(srcDoc, subsetPdf(pages, Len(srcDoc)))

RECURSIVE SplitOutputs_NoSkip(_, _)
\* A loop that writes a part for every range.
SplitOutputs_NoSkip(srcDoc, rangeList) ==
    IF rangeList = <<>> THEN <<>>
    ELSE <<SubsetDocument(srcDoc, parsePageRange(Head(rangeList), Len(srcDoc)))>>
             \o SplitOutputs_NoSkip(srcDoc, Tail(rangeList))

RECURSIVE SplitOutputs(_, _)
\* The loop of splitPdf over its ranges: the documents written, in order.
SplitOutputs(srcDoc, rangeList) ==
    IF rangeList = <<>> THEN <<>>
    ELSE LET pages == parsePageRange(Head(rangeList), Len(srcDoc))
         IN  IF Len(pages) = 0 THEN SplitOutputs(srcDoc, Tail(rangeList))
             ELSE <<SubsetDocument(srcDoc, pages)>> \o SplitOutputs(srcDoc, Tail(rangeList))

\* splitPdf(inputPdf, ranges, outDir, base) for an array of ranges: it
\* throws 'split: no ranges provided' for an empty one.
splitPdf(srcDoc, rangeList) ==
    IF rangeList = <<>> THEN [threw |-> TRUE, outputs |-> <<>>]
    ELSE [threw |-> FALSE, outputs |-> SplitOutputs(srcDoc, rangeList)]

RECURSIVE mergePdfs_LastFirst(_)
\* A merge that puts the pages of each input before those already there.
mergePdfs_LastFirst(inputs) ==
    IF inputs = <<>> THEN <<>>
    ELSE mergePdfs_LastFirst(Tail(inputs)) \o CopyPages(Head(inputs), AllPages(Len(Head(inputs))))

RECURSIVE mergePdfs(_)
\* mergePdfs(inputs, outputPdf): the document written.
mergePdfs(inputs) ==
    IF inputs = <<>> THEN <<>>
    ELSE CopyPages(Head(inputs), AllPages(Len(Head(inputs)))) \o mergePdfs(Tail(inputs))

(***************************************************************************)
(* The options and the content of a submission.                            *)
(***************************************************************************)
\* The arrays of page ranges submitted as options.split: "1-5" and "6-10",
\* "20-30" alone, and the empty array.
SplitOptions ==
    { << <<Pair(1, 5)>>, <<Pair(6, 10)>> >>,
      << <<Pair(20, 30)>> >>,
      <<>> }

\* The options bags submitted; a field that is absent from the bag is "unset",
\* an absent split or concurrency is Null.
DefaultOptions ==
    [split |-> Null, merge |-> FALSE, pdfToImages |-> FALSE, concurrency |-> Null,
     mode |-> "unset", cleanup |-> "unset"]

OptionBags ==
    { DefaultOptions,
      [DefaultOptions EXCEPT !.pdfToImages = TRUE],
      [DefaultOptions EXCEPT !.pdfToImages = TRUE, !.concurrency = Some(0)],
      [DefaultOptions EXCEPT !.mode = "convert"],
      [DefaultOptions EXCEPT !.cleanup = "true"],
      [DefaultOptions EXCEPT !.cleanup = "false"] }
        \cup { [DefaultOptions EXCEPT !.split = Some(ranges)] : ranges \in SplitOptions }

\* The number of pages of an uploaded PDF.
UploadPages == {3, 10}

\* The files uploaded: an extension and, for a PDF, its number of pages (0 for
\* the other files).
Uploads ==
    {[ext |-> e, pages |-> IF toLowerCase(e) = "pdf" THEN n ELSE 0] :
        e \in UploadExts, n \in UploadPages}

\* The options bags submitted with an upload: options.split goes with PDFs.
OptionsFor(upload) ==
    IF upload.pages > 0 THEN OptionBags ELSE {opt \in OptionBags : opt.split = Null}

\* The uploaded PDF as a document.
UploadedPdf(id, pages) == Doc(<<"uploads", id>>, pages)

(***************************************************************************)
(* Artifacts.  multer stores every upload under a unique name; a           *)
(* capability names its output after the input's base name.                *)
(***************************************************************************)
UploadPath(id) == <<"uploads", id>>

ConvertedPath(id) == <<"converted", id>>

PartPath(id, n) == <<"converted", id, n>>

(***************************************************************************)
(* ConversionResult values: a path string, an object with an outputPath    *)
(* and/or a pdfPath property, or an array of paths.                        *)
(***************************************************************************)
StringResult(p) == [type |-> "string", path |-> p, outputPath |-> Null, pdfPath |-> Null]

ObjectResult(op, pp) == [type |-> "object", path |-> Null, outputPath |-> op, pdfPath |-> pp]

ArrayResult == [type |-> "array", path |-> Null, outputPath |-> Null, pdfPath |-> Null]

NoResult == [type |-> "undefined", path |-> Null, outputPath |-> Null, pdfPath |-> Null]

(***************************************************************************)
(* What an invocation of a capability does when its engine does not fail:  *)
(* throws  - its own validation rejects the request;                       *)
(* result  - the value it returns;                                         *)
(* writes  - the artifacts it leaves on storage;                           *)
(* documents - the PDF documents among them whose pages the model follows; *)
(* cleanup - whether it unlinks its input before returning;                *)
(* hangs   - it awaits a promise that nothing will settle;                 *)
(* phases  - the number of engine runs that report progress;               *)
(* directory - whether the path it returns names a directory.              *)
(***************************************************************************)
Throws ==
    [throws |-> TRUE, hangs |-> FALSE, result |-> NoResult, writes |-> {}, documents |-> <<>>,
     cleanup |-> FALSE, phases |-> 1, directory |-> FALSE]

Returns(r, w, c, n) ==
    [throws |-> FALSE, hangs |-> FALSE, result |-> r, writes |-> w, documents |-> <<>>,
     cleanup |-> c, phases |-> n, directory |-> FALSE]

\* A call that returns the directory it filled.
ReturnsDirectory(r, w, c, n) == [Returns(r, w, c, n) EXCEPT !.directory = TRUE]

\* A call that never returns and never throws.
Hangs == [Throws EXCEPT !.throws = FALSE, !.hangs = TRUE]

\* The first launch() of pdfToImagesViaLibreOffice starts no worker: its loop
\* test `active < concurrency && next < singles.length` fails at once, and the
\* promise, which only a worker settles, stays pending.
StartsNoWorker(total, concurrency) == ~(0 < concurrency /\ 0 < total)

\* const { concurrency = 4 } = options
ConcurrencyOption(opt) == IF opt.concurrency = Null THEN 4 ELSE opt.concurrency[1]

\* const { cleanup = dflt } = options
CleanupOption(opt, dflt) == IF opt.cleanup = "unset" THEN dflt ELSE opt.cleanup = "true"

convertAudio(id, e, outFmt, opt) ==
    IF outFmt \notin AudioOutputs THEN Throws
    ELSE Returns(ObjectResult(ConvertedPath(id), Null), {ConvertedPath(id)},
                 CleanupOption(opt, TRUE), 1)

convertImage(id, e, outFmt, opt) ==
    IF outFmt \notin ImageOutputs THEN Throws
    ELSE Returns(ObjectResult(ConvertedPath(id), Null), {ConvertedPath(id)},
                 CleanupOption(opt, FALSE), 1)

\* A conversion that does not look at options.split.
convertDocument_SplitIgnored(id, e, pages, outFmt, opt) ==
    IF outFmt \notin DocumentOutputs THEN Throws
    ELSE Returns(StringResult(ConvertedPath(id)), {ConvertedPath(id)},
                 CleanupOption(opt, FALSE), 1)

convertDocument(id, e, pages, outFmt, opt) ==
    IF outFmt \notin DocumentOutputs THEN Throws
    ELSE IF opt.merge THEN
        IF ext(e) = "pdf"
        THEN Returns(StringResult(ConvertedPath(id)), {ConvertedPath(id)},
                     CleanupOption(opt, FALSE), 1)
        ELSE Throws
    ELSE IF ext(e) = "pdf" /\ opt.split # Null THEN
        LET split == splitPdf(UploadedPdf(id, pages), opt.split[1])
        IN  IF split.threw THEN Throws
            ELSE [Returns(ArrayResult, {PartPath(id, k) : k \in 1..Len(split.outputs)},
                          CleanupOption(opt, FALSE), 1)
                     EXCEPT !.documents = split.outputs]
    ELSE IF ext(e) = "pdf" /\ outFmt # "pdf" /\ opt.pdfToImages THEN
        IF StartsNoWorker(pages, ConcurrencyOption(opt)) THEN Hangs
        ELSE Returns(ArrayResult, {PartPath(id, 1), PartPath(id, 2)}, CleanupOption(opt, FALSE), 1)
    ELSE Returns(StringResult(ConvertedPath(id)), {ConvertedPath(id)},
                 CleanupOption(opt, FALSE), 1)

convertArchive(id, e, outFmt, opt) ==
    IF outFmt \notin ArchiveOutputs THEN Throws
    ELSE IF opt.mode = "convert" THEN
        Returns(StringResult(ConvertedPath(id)), {ConvertedPath(id)},
                CleanupOption(opt, FALSE), 2)
    ELSE \* mode 'auto' with a single input path: extract, which returns outDir
        ReturnsDirectory(StringResult(ConvertedPath(id)), {ConvertedPath(id)},
                         CleanupOption(opt, FALSE), 1)

convertPresentation(id, e, outFmt, opt) ==
    IF outFmt \notin PresentationOutputs THEN Throws
    ELSE IF outFmt = "pdf" /\ opt.pdfToImages THEN
        Returns(ObjectResult(Null, ConvertedPath(id)),
                {ConvertedPath(id), PartPath(id, 1), PartPath(id, 2)}, FALSE, 1)
    ELSE Returns(ObjectResult(ConvertedPath(id), Null), {ConvertedPath(id)}, FALSE, 1)

convertFont(id, e, outFmt, opt) ==
    IF outFmt \notin FontOutputs THEN Throws
    ELSE Returns(ObjectResult(ConvertedPath(id), Null), {ConvertedPath(id)}, FALSE, 1)

convertEbook(id, e, outFmt, opt) ==
    IF outFmt \notin EbookOutputs THEN Throws
    ELSE Returns(ObjectResult(ConvertedPath(id), Null), {ConvertedPath(id)}, FALSE, 1)

\* The capability the switch of runConversionJob invokes for a category.
Capability(category, id, e, pages, outFmt, opt) ==
    CASE category = "audio" -> convertAudio(id, e, outFmt, opt)
      [] category = "image" -> convertImage(id, e, outFmt, opt)
      [] category = "document" -> convertDocument(id, e, pages, outFmt, opt)
      [] category = "archive" -> convertArchive(id, e, outFmt, opt)
      [] category = "presentation" -> convertPresentation(id, e, outFmt, opt)
      [] category = "font" -> convertFont(id, e, outFmt, opt)
      [] category = "ebook" -> convertEbook(id, e, outFmt, opt)
      [] OTHER -> Throws

\* The output formats GET /api/formats lists for a category.
SupportedOutputs(category) ==
    CASE category = "audio" -> AudioOutputs
      [] category = "image" -> ImageOutputs
      [] category = "document" -> DocumentOutputs
      [] category = "archive" -> ArchiveOutputs
      [] category = "presentation" -> PresentationOutputs
      [] category = "font" -> FontOutputs
      [] category = "ebook" -> EbookOutputs
      [] OTHER -> {}

\* The input formats a category's capability declares.
SupportedInputs(category) ==
    CASE category = "audio" -> AudioInputs
      [] category = "image" -> ImageInputs
      [] category = "document" -> DocumentInputs
      [] category = "archive" -> ArchiveInputs
      [] category = "presentation" -> PresentationInputs
      [] category = "font" -> FontInputs
      [] category = "ebook" -> EbookInputs
      [] OTHER -> {}

\* Categories whose capability takes the progress callback as onProgress.
EngineDriven == {"audio", "archive"}

\* The coarse milestone runConversionJob reports before invoking the others.
StartMilestone(category) == IF category \in {"image", "font"} THEN 10 ELSE 5

(***************************************************************************)
(* State.                                                                  *)
(***************************************************************************)
VARIABLES
    jobs,        \* the job table: a function from the ids in the table to job records
    nextId,      \* number of ids handed out so far
    files,       \* the artifacts that exist on storage
    run,         \* per id, the runConversionJob invocation: position and closure;
                 \* it has ended at "skipped" (early return), "returned" (the
                 \* capability returned) or "threw" (the catch block ran)
    cancelling,  \* per id, the position of the accepted cancel handler in flight
    download,    \* per id, the position of the download in flight ("closed":
                 \* the close handler of its stream has run to its end)
    response,    \* the HTTP response sent by the last step (NoResponse: none)
    pool,        \* a call of runLimited: its closure, its workers and its promise
    parsed,      \* a call of parsePageRange: its arguments and what it returned
    pdf,         \* a call of subsetPdf, splitPdf or mergePdfs and what it wrote
    raster       \* a call of pdfToImagesViaLibreOffice: its closure and its promise

vars == <<jobs, nextId, files, run, cancelling, download, response, pool, parsed, pdf, raster>>

\* The state of the job store and of its handlers.
jobState == <<jobs, nextId, files, run, cancelling, download, response>>

\* The state of the service functions, which the job handlers leave alone.
library == <<pool, parsed, pdf, raster>>

\* No call of runLimited, no call of parsePageRange, no call of a PDF
\* operation, no call of pdfToImagesViaLibreOffice.
NoPool == [pc |-> "none"]

NoParse == [pc |-> "none"]

NoPdf == [pc |-> "none"]

NoRaster == [pc |-> "none"]

Terminal == {"completed", "failed", "cancelled"}

\* newJob creating the record already running.
newJob_Running(id, meta) ==
    [id |-> id, status |-> "running", progress |-> 0, etaSeconds |-> Null,
     inputPath |-> Null, outputPath |-> Null, error |-> Null, meta |-> meta]

\* newJob: the record of a fresh job
newJob(id, meta) ==
    [id |-> id, status |-> "queued", progress |-> 0, etaSeconds |-> Null,
     inputPath |-> Null, outputPath |-> Null, error |-> Null, meta |-> meta]

\* jobs.set(id, job) and jobs.delete(id)
JobsSet(table, id, job) == [k \in (DOMAIN table) \cup {id} |-> IF k = id THEN job ELSE table[k]]

\* JobsDelete that leaves the record in the table.
JobsDelete_Keeps(table, id) == table

JobsDelete(table, id) == [k \in (DOMAIN table) \ {id} |-> table[k]]

\* fsp.unlink(p) inside try/catch; nothing happens for a null path or a missing file
Unlink(fs, p) == fs \ {p}

NoRun ==
    [pc |-> "none", inputExt |-> "", pages |-> 0, category |-> "unknown", split |-> Null,
     call |-> Throws,
     lastPercent |-> 0, phase |-> 1, reported |-> Null, elapsed |-> Null]

NoResponse == [req |-> "none", id |-> 0, code |-> 0, error |-> "", status |-> "", snapshot |-> Null]

Reply(req, id, code, error, status, snapshot) ==
    [req |-> req, id |-> id, code |-> code, error |-> error, status |-> status, snapshot |-> snapshot]

\* A body that reports the record as it was created.
Snapshot_Stale(job) ==
    [id |-> job.id, status |-> "queued", progress |-> 0,
     etaSeconds |-> Null, error |-> Null, outputPath |-> Null]

\* The body of a status response
Snapshot(job) ==
    [id |-> job.id, status |-> job.status, progress |-> job.progress,
     etaSeconds |-> job.etaSeconds, error |-> job.error, outputPath |-> job.outputPath]

\* The job store and the handlers before any request.
NoJobs ==
    /\ jobs = <<>>
    /\ nextId = 0
    /\ files = {}
    /\ run = [j \in JobIds |-> NoRun]
    /\ cancelling = [j \in JobIds |-> "idle"]
    /\ download = [j \in JobIds |-> "idle"]
    /\ response = NoResponse

Init ==
    /\ NoJobs
    /\ pool = NoPool
    /\ parsed = NoParse
    /\ pdf = NoPdf
    /\ raster = NoRaster

\* process.nextTick runs runConversionJob as soon as the submitting handler
\* returns, before any other request is handled, and runConversionJob runs
\* from its start to its first await without yielding: no other handler runs
\* while an invocation is scheduled or between these two points.
Yielded == \A k \in JobIds : run[k].pc \notin {"scheduled", "dispatch"}

\* No invocation of runConversionJob is between its start and its first await:
\* the next callback of the nextTick queue may run.
TickFree == \A k \in JobIds : run[k].pc # "dispatch"

(***************************************************************************)
(* The progress callback of runConversionJob.                              *)
(***************************************************************************)
\* Number(p) || 0
NumberOrZero(p) == IF p = Null THEN 0 ELSE p[1]

\* A callback that stores the number it is given as it is.
ClampPercent_None(p) == NumberOrZero(p)

\* Math.max(0, Math.min(100, Number(p) || 0))
ClampPercent(p) == Max(0, Min(100, NumberOrZero(p)))

\* Math.round(x) of the non-negative rational num / den
RoundDiv(num, den) == (2 * num + den) \div (2 * den)

\* rate = progress > 0 ? elapsed / (progress / 100) : null;
\* etaSeconds = rate ? Math.max(0, Math.round(rate - elapsed)) : null
\* with elapsed = ms / 1000; a rate of 0 is falsy.
EtaSeconds(progress, ms) ==
    IF progress > 0 /\ ms # 0
    THEN Some(Max(0, RoundDiv(ms * (100 - progress), 1000 * progress)))
    ELSE Null

\* progress(p): the job record after the callback
ProgressCallback(job, p, ms) ==
    [job EXCEPT !.progress = ClampPercent(p),
                !.etaSeconds = EtaSeconds(ClampPercent(p), ms)]

(***************************************************************************)
(* POST /api/convert                                                       *)
(***************************************************************************)
\* A request without a file is answered 400 and creates nothing.
SubmitNoFile ==
    /\ Yielded
    /\ response' = Reply("convert", 0, 400, "No file uploaded", "", Null)
    /\ UNCHANGED <<jobs, nextId, files, run, cancelling, download>>
    /\ UNCHANGED library

\* A request with a file of extension e (a PDF of the given number of pages,
\* or another file, for which pages is 0): the job is created and answered,
\* and runConversionJob is scheduled with process.nextTick.
Submit(e, pages, outFmt, opt) ==
    /\ Yielded
    /\ nextId < MaxJobs
    /\ LET id == nextId + 1
           category == detectCategory(e)
           job == [newJob(id, [category |-> category, outputFormat |-> toLowerCase(outFmt)])
                       EXCEPT !.inputPath = UploadPath(id)]
       IN  /\ jobs' = JobsSet(jobs, id, job)
           /\ nextId' = id
           /\ files' = files \cup {UploadPath(id)}
           /\ run' = [run EXCEPT ![id] =
                         [pc |-> "scheduled", inputExt |-> e, pages |-> pages,
                          category |-> category, split |-> opt.split,
                          call |-> Capability(category, id, e, pages, outFmt, opt),
                          lastPercent |-> 0, phase |-> 1, reported |-> Null, elapsed |-> Null]]
           /\ response' = Reply("convert", id, 200, "", "", Null)
    /\ UNCHANGED <<cancelling, download>>
    /\ UNCHANGED library

(***************************************************************************)
(* runConversionJob                                                        *)
(***************************************************************************)
\* if (!job || job.status === 'cancelled') return;
Runnable(table, j) == j \in DOMAIN table /\ table[j].status # "cancelled"

\* job.status = 'running'; job.progress = 0;
StartJob(job) == [job EXCEPT !.status = "running", !.progress = 0]

\* typeof result === 'string' ? result : result?.outputPath || result?.pdfPath || null
OutputPathOf(result) ==
    IF result.type = "string" THEN result.path
    ELSE IF result.outputPath # Null THEN result.outputPath
    ELSE IF result.pdfPath # Null THEN result.pdfPath
    ELSE Null

\* Finalize without its cancellation check.
Finalize_NoCancelCheck(job, result) ==
    [job EXCEPT !.outputPath = OutputPathOf(result),
                !.status = "completed",
                !.progress = 100,
                !.etaSeconds = Some(0)]

\* The statements after the switch: the cancellation check and the completion.
Finalize(job, result) ==
    IF job.status = "cancelled" THEN job
    ELSE [job EXCEPT !.outputPath = OutputPathOf(result),
                     !.status = "completed",
                     !.progress = 100,
                     !.etaSeconds = Some(0)]

\* ErrorMessage without its default: e?.message alone.
ErrorMessage_NoDefault(msg) == msg

\* e?.message || 'Conversion failed'
ErrorMessage(msg) == IF msg = "" THEN "Conversion failed" ELSE msg

\* A catch block that swallows the failure.
CatchFailure_Swallows(job, msg) == job

\* The catch block, for a job that is in the table.
CatchFailure(job, msg) ==
    [job EXCEPT !.status = "failed",
                !.error = Some(ErrorMessage(msg)),
                !.etaSeconds = Null]

\* The table after the progress callback progress(p) of job j's invocation.
Progress(table, j, p, ms) ==
    IF j \in DOMAIN table
    THEN [table EXCEPT ![j] = ProgressCallback(table[j], p, ms)]
    ELSE table

\* The nextTick callback: the invocation starts.
RunStart(j) ==
    /\ TickFree
    /\ run[j].pc = "scheduled"
    /\ IF Runnable(jobs, j)
       THEN /\ jobs' = [jobs EXCEPT ![j] = StartJob(jobs[j])]
            /\ run' = [run EXCEPT ![j].pc = "dispatch"]
       ELSE /\ run' = [run EXCEPT ![j].pc = "skipped"]
            /\ UNCHANGED jobs
    /\ response' = NoResponse
    /\ UNCHANGED <<nextId, files, cancelling, download>>
    /\ UNCHANGED library

\* Date.now() - started at the milestone reported before the first await.
StartElapsedMs == {0, 1}

\* The switch, up to the await of the capability; an unknown category throws
\* and is caught in the same stretch.
Dispatch(j, ms) ==
    /\ run[j].pc = "dispatch"
    /\ LET category == run[j].category
       IN  IF category = "unknown"
           THEN /\ ms = 0
                /\ jobs' = IF j \in DOMAIN jobs
                           THEN [jobs EXCEPT ![j] = CatchFailure(jobs[j], "Unsupported file type")]
                           ELSE jobs
                /\ run' = [run EXCEPT ![j].pc = "threw"]
           ELSE IF category \in EngineDriven
           THEN /\ ms = 0
                /\ run' = [run EXCEPT ![j].pc = "converting"]
                /\ UNCHANGED jobs
           ELSE /\ jobs' = Progress(jobs, j, Some(StartMilestone(category)), ms)
                /\ run' = [run EXCEPT ![j].pc = "converting",
                                      ![j].reported = Some(StartMilestone(category)),
                                      ![j].elapsed = Some(ms)]
    /\ response' = NoResponse
    /\ UNCHANGED <<nextId, files, cancelling, download>>
    /\ UNCHANGED library

\* Math.max(0, Math.min(100, Math.round(percent))) of convertAudio and convertArchive
RoundClamp(n) == Max(0, Min(100, n))

\* Math.round(percent * 0.5)
RoundHalf(n) == (n + 1) \div 2

\* convertAudio's on('progress'): a finite number that differs from the last
\* percentage reported is passed to onProgress.
AudioProgress(j, pct, ms) ==
    /\ Yielded
    /\ run[j].pc = "converting"
    /\ run[j].category = "audio"
    /\ ~run[j].call.throws
    /\ pct # Null
    /\ RoundClamp(pct[1]) # run[j].lastPercent
    /\ run' = [run EXCEPT ![j].lastPercent = RoundClamp(pct[1]),
                          ![j].reported = Some(RoundClamp(pct[1])),
                          ![j].elapsed = Some(ms)]
    /\ jobs' = Progress(jobs, j, Some(RoundClamp(pct[1])), ms)
    /\ response' = NoResponse
    /\ UNCHANGED <<nextId, files, cancelling, download>>
    /\ UNCHANGED library

\* What convertArchive reports for an engine percentage in a phase.
ArchiveReport(pct, phases, phase) ==
    IF phases = 1 THEN RoundClamp(pct)
    ELSE IF phase = 1 THEN RoundClamp(RoundHalf(pct))
    ELSE 50 + Min(50, RoundHalf(pct))

\* convertArchive's stream.on('progress'): a truthy percentage is reported.
ArchiveProgress(j, pct, ms) ==
    /\ Yielded
    /\ run[j].pc = "converting"
    /\ run[j].category = "archive"
    /\ ~run[j].call.throws
    /\ pct # Null
    /\ pct[1] # 0
    /\ jobs' = Progress(jobs, j, Some(ArchiveReport(pct[1], run[j].call.phases, run[j].phase)), ms)
    /\ run' = [run EXCEPT ![j].reported = Some(ArchiveReport(pct[1], run[j].call.phases, run[j].phase)),
                          ![j].elapsed = Some(ms)]
    /\ response' = NoResponse
    /\ UNCHANGED <<nextId, files, cancelling, download>>
    /\ UNCHANGED library

\* convertArchive in mode 'convert': the extraction ends, the compression starts.
ArchiveNextPhase(j) ==
    /\ Yielded
    /\ run[j].pc = "converting"
    /\ run[j].category = "archive"
    /\ ~run[j].call.throws
    /\ run[j].phase < run[j].call.phases
    /\ run' = [run EXCEPT ![j].phase = @ + 1]
    /\ response' = NoResponse
    /\ UNCHANGED <<jobs, nextId, files, cancelling, download>>
    /\ UNCHANGED library

\* The capability returns: the coarse progress(100) of the categories that are
\* not engine driven, then the statements after the switch.
EngineSuccess(j, ms) ==
    /\ Yielded
    /\ run[j].pc = "converting"
    /\ ~run[j].call.throws
    /\ ~run[j].call.hangs
    /\ run[j].phase = run[j].call.phases
    /\ LET call == run[j].call
           reported == IF run[j].category \in EngineDriven
                       THEN jobs
                       ELSE Progress(jobs, j, Some(100), ms)
       IN  /\ files' = (files \cup call.writes)
                          \ (IF call.cleanup THEN {UploadPath(j)} ELSE {})
           /\ jobs' = IF j \in DOMAIN reported
                      THEN [reported EXCEPT ![j] = Finalize(reported[j], call.result)]
                      ELSE reported
    /\ run' = [run EXCEPT ![j].pc = "returned",
                          ![j].reported = IF run[j].category \in EngineDriven THEN @ ELSE Some(100),
                          ![j].elapsed = IF run[j].category \in EngineDriven THEN @ ELSE Some(ms)]
    /\ response' = NoResponse
    /\ UNCHANGED <<nextId, cancelling, download>>
    /\ UNCHANGED library

\* The capability reaches the await of a promise that nothing will settle:
\* runConversionJob stays at its own await for ever.
EngineStalls(j) ==
    /\ Yielded
    /\ run[j].pc = "converting"
    /\ run[j].call.hangs
    /\ run' = [run EXCEPT ![j].pc = "stalled"]
    /\ response' = NoResponse
    /\ UNCHANGED <<jobs, nextId, files, cancelling, download>>
    /\ UNCHANGED library

\* The capability throws or rejects: the catch block.
EngineFailure(j, msg) ==
    /\ Yielded
    /\ run[j].pc = "converting"
    /\ jobs' = IF j \in DOMAIN jobs
               THEN [jobs EXCEPT ![j] = CatchFailure(jobs[j], msg)]
               ELSE jobs
    /\ run' = [run EXCEPT ![j].pc = "threw"]
    /\ response' = NoResponse
    /\ UNCHANGED <<nextId, files, cancelling, download>>
    /\ UNCHANGED library

(***************************************************************************)
(* DELETE /api/cancel/:jobId                                               *)
(***************************************************************************)
\* CancelAllowed testing 'failed' alone.
CancelAllowed_FailedOnly(job) == job.status # "failed"

\* CancelAllowed testing 'completed' alone.
CancelAllowed_CompletedOnly(job) == job.status # "completed"

\* CancelAllowed rejecting every terminal status.
CancelAllowed_NonTerminalOnly(job) == job.status \notin Terminal

\* The handler goes on unless job.status === 'completed' || job.status === 'failed'
CancelAllowed(job) == job.status \notin {"completed", "failed"}

\* The request arrives; an accepted one marks the job and awaits the unlink
\* of its input.
CancelRequest(j) ==
    /\ Yielded
    /\ IF j \notin DOMAIN jobs
       THEN /\ response' = Reply("cancel", j, 404, "Job not found", "", Null)
            /\ UNCHANGED <<jobs, cancelling>>
       ELSE IF ~CancelAllowed(jobs[j])
       THEN /\ response' = Reply("cancel", j, 400, "Job already finished", "", Null)
            /\ UNCHANGED <<jobs, cancelling>>
       ELSE /\ cancelling[j] = "idle"
            /\ jobs' = [jobs EXCEPT ![j].status = "cancelled"]
            /\ cancelling' = [cancelling EXCEPT ![j] = "cleanup"]
            /\ response' = NoResponse
    /\ UNCHANGED <<nextId, files, run, download>>
    /\ UNCHANGED library

\* The artifacts the accepted handler unlinks: job.inputPath, and
\* job.outputPath when it is set.
CancelArtifacts(job) == {job.inputPath, job.outputPath} \ {Null}

\* The unlinks settle and the handler answers with the job's status.
CancelCleanup(j) ==
    /\ Yielded
    /\ cancelling[j] = "cleanup"
    /\ j \in DOMAIN jobs
    /\ files' = files \ CancelArtifacts(jobs[j])
    /\ cancelling' = [cancelling EXCEPT ![j] = "idle"]
    /\ response' = Reply("cancel", j, 200, "", jobs[j].status, Null)
    /\ UNCHANGED <<jobs, nextId, run, download>>
    /\ UNCHANGED library

(***************************************************************************)
(* GET /api/download/:jobId                                                *)
(***************************************************************************)
\* Downloadable with the wrong status test.
Downloadable_NotFailed(job) == job.status # "failed"

\* The handler streams unless job.status !== 'completed' || !job.outputPath
Downloadable(job) == job.status = "completed" /\ job.outputPath # Null

\* The request arrives; an accepted one opens the read stream of the output.
DownloadRequest(j) ==
    /\ Yielded
    /\ IF j \notin DOMAIN jobs
       THEN /\ response' = Reply("download", j, 404, "Job not found", "", Null)
            /\ UNCHANGED download
       ELSE IF ~Downloadable(jobs[j])
       THEN /\ response' = Reply("download", j, 400, "Job not completed", "", Null)
            /\ UNCHANGED download
       ELSE /\ download[j] = "idle"
            /\ download' = [download EXCEPT ![j] = "streaming"]
            /\ response' = Reply("download", j, 200, "", "", Null)
    /\ UNCHANGED <<jobs, nextId, files, run, cancelling>>
    /\ UNCHANGED library

\* stream.on('close'): the output is unlinked.  The read stream of a
\* directory fails with an error that nothing handles, and its close handler
\* is not reached.
StreamClose(j) ==
    /\ Yielded
    /\ download[j] = "streaming"
    /\ j \in DOMAIN jobs
    /\ ~run[j].call.directory
    /\ files' = Unlink(files, jobs[j].outputPath)
    /\ download' = [download EXCEPT ![j] = "cleanup"]
    /\ response' = NoResponse
    /\ UNCHANGED <<jobs, nextId, run, cancelling>>
    /\ UNCHANGED library

\* The rest of the close handler: the input is unlinked and the record dropped.
DownloadCleanup(j) ==
    /\ Yielded
    /\ download[j] = "cleanup"
    /\ j \in DOMAIN jobs
    /\ files' = Unlink(files, jobs[j].inputPath)
    /\ jobs' = JobsDelete(jobs, j)
    /\ download' = [download EXCEPT ![j] = "closed"]
    /\ response' = NoResponse
    /\ UNCHANGED <<nextId, run, cancelling>>
    /\ UNCHANGED library

(***************************************************************************)
(* GET /api/status/:jobId                                                  *)
(***************************************************************************)
StatusQuery(j) ==
    /\ Yielded
    /\ response' = IF j \in DOMAIN jobs
                   THEN Reply("status", j, 200, "", "", Some(Snapshot(jobs[j])))
                   ELSE Reply("status", j, 404, "Job not found", "", Null)
    /\ UNCHANGED <<jobs, nextId, files, run, cancelling, download>>
    /\ UNCHANGED library

(***************************************************************************)
(* The specification.                                                      *)
(***************************************************************************)
Next ==
    \/ SubmitNoFile
    \/ \E upload \in Uploads, outFmt \in OutputFormats :
          \E opt \in OptionsFor(upload) : Submit(upload.ext, upload.pages, outFmt, opt)
    \/ \E j \in JobIds : RunStart(j)
    \/ \E j \in JobIds, ms \in StartElapsedMs : Dispatch(j, ms)
    \/ \E j \in JobIds, pct \in EnginePercents, ms \in ElapsedMs : AudioProgress(j, pct, ms)
    \/ \E j \in JobIds, pct \in EnginePercents, ms \in ElapsedMs : ArchiveProgress(j, pct, ms)
    \/ \E j \in JobIds : ArchiveNextPhase(j)
    \/ \E j \in JobIds, ms \in ElapsedMs : EngineSuccess(j, ms)
    \/ \E j \in JobIds, msg \in EngineMessages : EngineFailure(j, msg)
    \/ \E j \in JobIds : EngineStalls(j)
    \/ \E j \in JobIds : CancelRequest(j)
    \/ \E j \in JobIds : CancelCleanup(j)
    \/ \E j \in JobIds : DownloadRequest(j)
    \/ \E j \in JobIds : StreamClose(j)
    \/ \E j \in JobIds : DownloadCleanup(j)
    \/ \E j \in JobIds : StatusQuery(j)

Spec == Init /\ [][Next]_vars

\* The server when every scheduled callback runs and every invocation of an
\* external engine eventually returns or fails.
LiveSpec ==
    /\ Init
    /\ [][Next]_vars
    /\ \A j \in JobIds :
          /\ WF_vars(RunStart(j))
          /\ WF_vars(\E ms \in StartElapsedMs : Dispatch(j, ms))
          /\ WF_vars(ArchiveNextPhase(j))
          /\ WF_vars(\/ \E ms \in ElapsedMs : EngineSuccess(j, ms)
                     \/ \E msg \in EngineMessages : EngineFailure(j, msg)
                     \/ EngineStalls(j))

(***************************************************************************)
(* runLimited: the bounded worker pool of the image capability (the page   *)
(* fan-out of pdfToImagesViaLibreOffice is the same loop, written inline). *)
(***************************************************************************)
MaxItems == 3

MaxLimit == 3

\* The inputs of a batch, and the sequences of them runLimited is called with.
ItemValues == {"a", "b"}

ItemSeqs == UNION {[1..n -> ItemValues] : n \in 0..MaxItems}

\* What mapper(items[idx], idx) resolves to, and what it rejects with.
Converted(item, idx) == <<"converted", item>>

Failure(item, idx) == <<"error", item, idx>>

\* resolve and reject of the promise runLimited returns: only the first
\* settlement counts.
Pending == [state |-> "pending", value |-> Null]

Resolve(promise, value) ==
    IF promise.state = "pending" THEN [state |-> "fulfilled", value |-> Some(value)] ELSE promise

\* A reject that overwrites an earlier settlement.
Reject_Overwrites(promise, err) == [state |-> "rejected", value |-> Some(err)]

Reject(promise, err) ==
    IF promise.state = "pending" THEN [state |-> "rejected", value |-> Some(err)] ELSE promise

\* A call of runLimited(items, limit, mapper) that has not run yet.
PoolCall(items, limit) ==
    [pc |-> "called", items |-> items, limit |-> limit,
     results |-> [i \in 1..Len(items) |-> Null],
     next |-> 0, active |-> 0,
     worker |-> [i \in 1..Len(items) |-> "queued"],
     promise |-> Pending,
     settled |-> <<>>]

\* A launch that starts every remaining item.
Launch_Unbounded(p) ==
    [p EXCEPT !.next = Len(p.items),
              !.active = @ + (Len(p.items) - p.next),
              !.worker = [i \in DOMAIN @ |-> IF i > p.next THEN "running" ELSE @[i]]]

\* A launch in rounds: it starts items only when no worker is left in flight.
Launch_Batched(p) ==
    LET k == IF p.active = 0 THEN Max(0, Min(p.limit, Len(p.items) - p.next)) ELSE 0
    IN  [p EXCEPT !.next = @ + k,
                  !.active = @ + k,
                  !.worker = [i \in DOMAIN @ |->
                                 IF i > p.next /\ i <= p.next + k THEN "running" ELSE @[i]]]

\* launch(): while (active < limit && next < items.length) start items[next++]
Launch(p) ==
    LET k == Max(0, Min(p.limit - p.active, Len(p.items) - p.next))
    IN  [p EXCEPT !.next = @ + k,
                  !.active = @ + k,
                  !.worker = [i \in DOMAIN @ |->
                                 IF i > p.next /\ i <= p.next + k THEN "running" ELSE @[i]]]

\* A store that fills the array in the order of completion.
StoreResult_Push(results, idx, res) ==
    LET free == {i \in DOMAIN results : results[i] = Null}
        slot == CHOOSE i \in free : \A k \in free : i <= k
    IN  [results EXCEPT ![slot] = Some(res)]

\* results[idx] = res
StoreResult(results, idx, res) == [results EXCEPT ![idx] = Some(res)]

\* The body of runLimited: the array, the counters, the promise, launch().
RunLimited ==
    /\ pool.pc = "called"
    /\ pool' = Launch([pool EXCEPT !.pc = "running"])
    /\ UNCHANGED <<jobState, parsed, pdf, raster>>

\* The mapper of item i resolves: the then-callback stores the result, and
\* resolves the promise or launches again.
WorkerFulfils(i) ==
    /\ pool.pc = "running"
    /\ i \in DOMAIN pool.worker
    /\ pool.worker[i] = "running"
    /\ LET stored == [pool EXCEPT !.results = StoreResult(@, i, Converted(pool.items[i], i)),
                                  !.active = @ - 1,
                                  !.worker[i] = "fulfilled",
                                  !.settled = Append(@, i)]
       IN  pool' = IF stored.next >= Len(stored.items) /\ stored.active = 0
                   THEN [stored EXCEPT !.promise = Resolve(@, stored.results)]
                   ELSE Launch(stored)
    /\ UNCHANGED <<jobState, parsed, pdf, raster>>

\* The mapper of item i rejects: the catch-callback rejects the promise.
WorkerRejects(i) ==
    /\ pool.pc = "running"
    /\ i \in DOMAIN pool.worker
    /\ pool.worker[i] = "running"
    /\ pool' = [pool EXCEPT !.promise = Reject(@, Failure(pool.items[i], i)),
                            !.worker[i] = "rejected",
                            !.settled = Append(@, i)]
    /\ UNCHANGED <<jobState, parsed, pdf, raster>>

PoolInit ==
    /\ NoJobs
    /\ parsed = NoParse
    /\ pdf = NoPdf
    /\ raster = NoRaster
    /\ pool \in {PoolCall(items, limit) : items \in ItemSeqs, limit \in 1..MaxLimit}

PoolNext ==
    \/ RunLimited
    \/ \E i \in 1..MaxItems : WorkerFulfils(i)
    \/ \E i \in 1..MaxItems : WorkerRejects(i)

PoolSpec == PoolInit /\ [][PoolNext]_vars

\* The pool when the body of runLimited runs and every started mapper
\* eventually resolves or rejects.
PoolLiveSpec ==
    /\ PoolInit
    /\ [][PoolNext]_vars
    /\ WF_vars(RunLimited)
    /\ \A i \in 1..MaxItems : WF_vars(WorkerFulfils(i) \/ WorkerRejects(i))

(***************************************************************************)
(* Calls of parsePageRange and of the PDF to PDF path of convertDocument.  *)
(***************************************************************************)
\* A call with its arguments, before it runs.
ParseCall(rangeStr, totalPages) ==
    [pc |-> "called", rangeStr |-> rangeStr, totalPages |-> totalPages, result |-> <<>>]

\* parsePageRange(rangeStr, totalPages) returns.
ParsePageRange ==
    /\ parsed.pc = "called"
    /\ parsed' = [parsed EXCEPT !.pc = "parsed",
                                !.result = parsePageRange(parsed.rangeStr, parsed.totalPages)]
    /\ UNCHANGED <<jobState, pool, pdf, raster>>

\* convertDocument writes the output of a PDF with option pageRange.
ConvertPdfToPdf ==
    /\ parsed.pc = "called"
    /\ parsed' = [parsed EXCEPT !.pc = "converted",
                                !.result = PdfToPdfPages(parsed.rangeStr, parsed.totalPages)]
    /\ UNCHANGED <<jobState, pool, pdf, raster>>

RangeInit ==
    /\ NoJobs
    /\ pool = NoPool
    /\ pdf = NoPdf
    /\ raster = NoRaster
    /\ parsed \in {ParseCall(str, n) : str \in RangeStrings, n \in PageCounts}

RangeNext ==
    \/ ParsePageRange
    \/ ConvertPdfToPdf

RangeSpec == RangeInit /\ [][RangeNext]_vars

(***************************************************************************)
(* Calls of subsetPdf, splitPdf and mergePdfs.                             *)
(***************************************************************************)
MaxListed == 3

MaxRanges == 2

MaxDocs == 3

\* The documents the operations are called on.
SourceDocs == {Doc("A", 3), Doc("B", 2), Doc("T", 10)}

\* The pages arrays subsetPdf is called with.
ListedPages == 0..4

PageLists == UNION {[1..n -> ListedPages] : n \in 0..MaxListed}

\* The range strings of a split, and the arrays of them.
SplitRangeStrings ==
    {<<Pair(1, 3)>>, <<Pair(20, 30)>>, <<Pair(1, 5)>>, <<Pair(6, 10)>>,
     <<Single(2), Pair(3, 1)>>, <<Pair(4, 12)>>, <<Blank(1)>>}

RangeLists == UNION {[1..n -> SplitRangeStrings] : n \in 0..MaxRanges}

DocLists == UNION {[1..n -> SourceDocs] : n \in 0..MaxDocs}

\* A call with its arguments, before it runs.
PdfCall(op, docs, pages, ranges) ==
    [pc |-> "called", op |-> op, docs |-> docs, pages |-> pages, ranges |-> ranges,
     threw |-> FALSE, outputs |-> <<>>]

\* subsetPdf(inputPdf, outputPdf, pages) writes outputPdf and returns.
SubsetPdf ==
    /\ pdf.pc = "called"
    /\ pdf.op = "subset"
    /\ pdf' = [pdf EXCEPT !.pc = "returned",
                          !.outputs = <<SubsetDocument(pdf.docs[1], pdf.pages)>>]
    /\ UNCHANGED <<jobState, pool, parsed, raster>>

\* splitPdf(inputPdf, ranges, outDir, base) writes its parts and returns, or throws.
SplitPdf ==
    /\ pdf.pc = "called"
    /\ pdf.op = "split"
    /\ LET done == splitPdf(pdf.docs[1], pdf.ranges)
       IN  pdf' = [pdf EXCEPT !.pc = IF done.threw THEN "threw" ELSE "returned",
                             !.threw = done.threw,
                             !.outputs = done.outputs]
    /\ UNCHANGED <<jobState, pool, parsed, raster>>

\* mergePdfs(inputs, outputPdf) writes outputPdf and returns.
MergePdfs ==
    /\ pdf.pc = "called"
    /\ pdf.op = "merge"
    /\ pdf' = [pdf EXCEPT !.pc = "returned", !.outputs = <<mergePdfs(pdf.docs)>>]
    /\ UNCHANGED <<jobState, pool, parsed, raster>>

PdfInit ==
    /\ NoJobs
    /\ pool = NoPool
    /\ parsed = NoParse
    /\ raster = NoRaster
    /\ pdf \in {PdfCall("subset", <<d>>, pages, <<>>) : d \in SourceDocs, pages \in PageLists}
              \cup {PdfCall("split", <<d>>, <<>>, ranges) : d \in SourceDocs, ranges \in RangeLists}
              \cup {PdfCall("merge", docs, <<>>, <<>>) : docs \in DocLists}

PdfNext ==
    \/ SubsetPdf
    \/ SplitPdf
    \/ MergePdfs

PdfSpec == PdfInit /\ [][PdfNext]_vars

(***************************************************************************)
(* pdfToImagesViaLibreOffice: one single-page PDF per page, converted to   *)
(* an image by LibreOffice with at most `concurrency` conversions at once. *)
(***************************************************************************)
MaxPages == 3

\* The imageFormat option of the calls.
ImageFormats == {"png", "jpeg"}

\* ensureOutputExt(format)
ensureOutputExt(format) ==
    IF format = "htm" THEN "html" ELSE IF format = "jpeg" THEN "jpg" ELSE format

\* `${basename(inputPdf, '.pdf')}_page-${page}.${ensureOutputExt(imageFormat)}` in outDir
PageTarget(base, page, imageFormat) == <<base, "_page-", page, ensureOutputExt(imageFormat)>>

\* singles: { page: p, file } for p = 1..total
Singles(total) == [i \in 1..total |-> [page |-> i, file |-> <<"tmp", "page-", i>>]]

\* A call with its arguments and the single-page files written to tmpDir
\* (tmp: those that exist), before the fan-out.
RasterCall(base, total, imageFormat, concurrency) ==
    [pc |-> "called", base |-> base, imageFormat |-> imageFormat,
     concurrency |-> concurrency, singles |-> Singles(total),
     tmp |-> {Singles(total)[i].file : i \in 1..total},
     results |-> [i \in 1..total |-> Null],
     next |-> 0, active |-> 0,
     worker |-> [i \in 1..total |-> "queued"],
     promise |-> Pending,
     settled |-> <<>>,
     returned |-> Null]

\* launch(): while (active < concurrency && next < singles.length) start singles[next++]
LaunchPages(r) ==
    LET k == Max(0, Min(r.concurrency - r.active, Len(r.singles) - r.next))
    IN  [r EXCEPT !.next = @ + k,
                  !.active = @ + k,
                  !.worker = [i \in DOMAIN @ |->
                                 IF i > r.next /\ i <= r.next + k THEN "converting" ELSE @[i]]]

\* A store that fills the array in the order of completion.
StoreTarget_Push(results, i, target) ==
    LET free == {k \in DOMAIN results : results[k] = Null}
        slot == CHOOSE k \in free : \A n \in free : k <= n
    IN  [results EXCEPT ![slot] = Some(target)]

\* results[i] = target
StoreTarget(results, i, target) == [results EXCEPT ![i] = Some(target)]

\* The function up to the promise: the arrays, the counters, launch().
PdfToImages ==
    /\ raster.pc = "called"
    /\ raster' = LaunchPages([raster EXCEPT !.pc = "running"])
    /\ UNCHANGED <<jobState, pool, parsed, pdf>>

\* runLibreOfficeConvert of page i returns the file it produced; the worker
\* goes on to rename it.
PageConverted(i) ==
    /\ raster.pc \in {"running", "threw"}
    /\ i \in DOMAIN raster.worker
    /\ raster.worker[i] = "converting"
    /\ raster' = [raster EXCEPT !.worker[i] = "renaming"]
    /\ UNCHANGED <<jobState, pool, parsed, pdf>>

\* The rename (or the copy that replaces it) of page i is done: the worker
\* stores the target, and resolves the promise or launches again.
PageStored(i) ==
    /\ raster.pc \in {"running", "threw"}
    /\ i \in DOMAIN raster.worker
    /\ raster.worker[i] = "renaming"
    /\ LET target == PageTarget(raster.base, raster.singles[i].page, raster.imageFormat)
           stored == [raster EXCEPT !.results = StoreTarget(@, i, target),
                                    !.active = @ - 1,
                                    !.worker[i] = "stored",
                                    !.settled = Append(@, i)]
       IN  raster' = IF stored.next >= Len(stored.singles) /\ stored.active = 0
                     THEN [stored EXCEPT !.promise = Resolve(@, <<>>)]
                     ELSE LaunchPages(stored)
    /\ UNCHANGED <<jobState, pool, parsed, pdf>>

\* The conversion of page i fails, or its rename and copy both fail: the
\* promise is rejected and the worker ends.
PageFails(i) ==
    /\ raster.pc \in {"running", "threw"}
    /\ i \in DOMAIN raster.worker
    /\ raster.worker[i] \in {"converting", "renaming"}
    /\ raster' = [raster EXCEPT !.promise = Reject(@, Failure(raster.singles[i].file, i)),
                                !.worker[i] = "failed",
                                !.settled = Append(@, i)]
    /\ UNCHANGED <<jobState, pool, parsed, pdf>>

\* The await of the promise ends: return results, or the rejection is thrown;
\* on both ways the finally block unlinks every file of tmpDir.
RasterSettles ==
    /\ raster.pc = "running"
    /\ raster.promise.state # "pending"
    /\ raster' = IF raster.promise.state = "fulfilled"
                  THEN [raster EXCEPT !.pc = "returned", !.returned = Some(raster.results),
                                      !.tmp = {}]
                  ELSE [raster EXCEPT !.pc = "threw", !.tmp = {}]
    /\ UNCHANGED <<jobState, pool, parsed, pdf>>

RasterInit ==
    /\ NoJobs
    /\ pool = NoPool
    /\ parsed = NoParse
    /\ pdf = NoPdf
    /\ raster \in {RasterCall("doc", total, fmt, c) :
                       total \in 0..MaxPages, fmt \in ImageFormats, c \in 0..MaxLimit}

RasterNext ==
    \/ PdfToImages
    \/ \E i \in 1..MaxPages : PageConverted(i)
    \/ \E i \in 1..MaxPages : PageStored(i)
    \/ \E i \in 1..MaxPages : PageFails(i)
    \/ RasterSettles

RasterSpec == RasterInit /\ [][RasterNext]_vars

(***************************************************************************)
(* Properties of the job lifecycle.                                        *)
(***************************************************************************)
\* The job of id j is in the table before and after the step.
Stays(j) == j \in DOMAIN jobs /\ j \in DOMAIN jobs'

\* A cancel request for j arrives in this step: it is rejected, or accepted.
CancelArrives(j) ==
    \/ response'.req = "cancel" /\ response'.id = j /\ response'.code # 200
    \/ cancelling[j] = "idle" /\ cancelling'[j] = "cleanup"

\* A download request for j arrives in this step.
DownloadArrives(j) == response'.req = "download" /\ response'.id = j

\* The capability invoked for j returns successfully in this step.
EngineReturns(j) == run[j].pc = "converting" /\ run'[j].pc = "returned"

\* The invocation for j ends in its catch block in this step.
EngineThrows(j) == run[j].pc \in {"dispatch", "converting"} /\ run'[j].pc = "threw"

AllowedTransitions ==
    { <<"queued", "running">>, <<"running", "completed">>, <<"running", "failed">>,
      <<"queued", "cancelled">>, <<"running", "cancelled">> }

\* C1: every change of a job's status is queued->running, running->completed,
\* running->failed, queued->cancelled or running->cancelled, so a completed,
\* failed or cancelled job never changes status again.
C1_StatusTransitions ==
    [][\A j \in JobIds :
          (Stays(j) /\ jobs'[j].status # jobs[j].status)
              => <<jobs[j].status, jobs'[j].status>> \in AllowedTransitions]_vars

\* C2: when the capability returns successfully for a job that was cancelled
\* while running, the result is discarded: from then on the job's status is
\* cancelled and its outputPath is null.
C2_CancelWinsOverCompletion ==
    [][\A j \in JobIds :
          (/\ j \in DOMAIN jobs
           /\ jobs[j].status = "cancelled"
           /\ EngineReturns(j) \/ (run[j].pc = "returned" /\ jobs[j].outputPath = Null))
              => /\ j \in DOMAIN jobs'
                 /\ jobs'[j].status = "cancelled"
                 /\ jobs'[j].outputPath = Null]_vars

\* C2 witness: a cancelled job whose capability has returned and left its
\* output on storage.
C2_Witness ==
    \E j \in DOMAIN jobs :
        /\ run[j].pc = "returned"
        /\ jobs[j].status = "cancelled"
        /\ run[j].call.writes \subseteq files

\* C3: once a job is completed, failed or cancelled, no step writes its
\* progress, etaSeconds or outputPath.
C3_TerminalFieldsFrozen ==
    [][\A j \in JobIds :
          (Stays(j) /\ jobs[j].status \in Terminal)
              => /\ jobs'[j].progress = jobs[j].progress
                 /\ jobs'[j].etaSeconds = jobs[j].etaSeconds
                 /\ jobs'[j].outputPath = jobs[j].outputPath]_vars

\* C4: while a job is running its progress never decreases.
C4_ProgressMonotone ==
    [][\A j \in JobIds :
          (Stays(j) /\ jobs[j].status = "running" /\ jobs'[j].status = "running")
              => jobs'[j].progress >= jobs[j].progress]_vars

\* C5: when the capability has returned for a job that is not cancelled, the
\* job is completed with progress 100, etaSeconds 0 and a non-null outputPath,
\* whatever the form of the result.
C5_CompletionRecordsOutput ==
    \A j \in DOMAIN jobs :
        (run[j].pc = "returned" /\ jobs[j].status # "cancelled")
            => /\ jobs[j].status = "completed"
               /\ jobs[j].progress = 100
               /\ jobs[j].etaSeconds = Some(0)
               /\ jobs[j].outputPath # Null

\* A failed job as the catch block leaves it.
FailedRecord(job) ==
    /\ job.status = "failed"
    /\ job.error # Null
    /\ job.error[1] # ""
    /\ job.etaSeconds = Null
    /\ job.outputPath = Null

\* C6: a failure of the capability for a job that has not been cancelled is
\* trapped: the invocation ends, and from then on the job is failed with a
\* non-empty error message, etaSeconds null and outputPath null.
C6_FailureTrapped ==
    [][\A j \in JobIds :
          (/\ j \in DOMAIN jobs
           /\ \/ EngineThrows(j) /\ jobs[j].status # "cancelled"
              \/ run[j].pc = "threw" /\ FailedRecord(jobs[j]))
              => /\ j \in DOMAIN jobs'
                 /\ run'[j].pc = "threw"
                 /\ FailedRecord(jobs'[j])]_vars

\* C6 witness: a job that failed while running, with an engine error that
\* carried no message.
C6_Witness ==
    \E j \in DOMAIN jobs :
        /\ run[j].pc = "threw"
        /\ run[j].category # "unknown"
        /\ cancelling[j] = "idle"
        /\ UploadPath(j) \in files
        /\ jobs[j].status = "failed"
        /\ jobs[j].error = Some("Conversion failed")

\* C7: a cancel request for a completed or failed job is answered with an
\* error and changes neither the job table nor the artifacts.
C7_CancelRejectedOnFinished ==
    [][\A j \in JobIds :
          (/\ j \in DOMAIN jobs
           /\ jobs[j].status \in {"completed", "failed"}
           /\ CancelArrives(j))
              => /\ response'.code = 400
                 /\ jobs' = jobs
                 /\ files' = files]_vars

\* C7 witness: the rejection of a cancel request for a completed job whose
\* artifacts are on storage.
C7_Witness ==
    \E j \in DOMAIN jobs :
        /\ response = Reply("cancel", j, 400, "Job already finished", "", Null)
        /\ jobs[j].status = "completed"
        /\ jobs[j].outputPath \in files

C9_RetrievalEvicts ==
    \A j \in JobIds :
        download[j] = "closed"
            => /\ j \notin DOMAIN jobs
               /\ OutputPathOf(run[j].call.result) \notin files
               /\ UploadPath(j) \notin files
               /\ (response.req \in {"status", "download", "cancel"} /\ response.id = j)
                      => response.code = 404

\* C9 witness: a status query answered not-found after a retrieval.
C9_Witness ==
    \E j \in JobIds :
        /\ download[j] = "closed"
        /\ response = Reply("status", j, 404, "Job not found", "", Null)

\* C10: a download request for a queued, running, failed or cancelled job
\* fails and changes neither the job table nor the artifacts.
C10_DownloadRejectedUnlessCompleted ==
    [][\A j \in JobIds :
          (/\ j \in DOMAIN jobs
           /\ jobs[j].status \in {"queued", "running", "failed", "cancelled"}
           /\ DownloadArrives(j))
              => /\ response'.code = 400
                 /\ jobs' = jobs
                 /\ files' = files]_vars

\* C10 witness: the rejection of a download request for a running job.
C10_Witness ==
    \E j \in DOMAIN jobs :
        /\ response = Reply("download", j, 400, "Job not completed", "", Null)
        /\ jobs[j].status = "running"
        /\ UploadPath(j) \in files

\* C11: once the cleanup of an accepted cancel request has run, the job
\* record is no longer in the job table.
C11_CancelCleanupEvicts ==
    [][\A j \in JobIds :
          (cancelling[j] = "cleanup" /\ cancelling'[j] = "idle")
              => j \notin DOMAIN jobs']_vars

\* C12: the job table never holds a job whose input matched no capability or
\* whose output format its capability does not support: such a submission
\* creates no record.
C12_InvalidSubmissionCreatesNoJob ==
    \A j \in DOMAIN jobs :
        /\ jobs[j].meta.category # "unknown"
        /\ jobs[j].meta.outputFormat \in SupportedOutputs(jobs[j].meta.category)

\* The submission of a file is answered in this step.
SubmitAnswered == response'.req = "convert" /\ response'.code = 200

\* C13: when the submission response is produced the job is new in the
\* table, queued, with progress 0, etaSeconds null and no error, and its
\* conversion has not started; a job becomes running only in a later step,
\* from queued.
C13_SubmissionAnswersBeforeStart ==
    [][/\ SubmitAnswered
          => LET id == response'.id
             IN  /\ id \notin DOMAIN jobs
                 /\ id \in DOMAIN jobs'
                 /\ jobs'[id].status = "queued"
                 /\ jobs'[id].progress = 0
                 /\ jobs'[id].etaSeconds = Null
                 /\ jobs'[id].error = Null
                 /\ run'[id].pc = "scheduled"
       /\ \A j \in DOMAIN jobs' :
             (jobs'[j].status = "running" /\ (j \notin DOMAIN jobs \/ jobs[j].status # "running"))
                 => /\ j \in DOMAIN jobs
                    /\ jobs[j].status = "queued"
                    /\ ~SubmitAnswered]_vars

\* C13 witness: the response of a submission, with the job queued.
C13_Witness ==
    /\ response.req = "convert"
    /\ response.code = 200
    /\ response.id \in DOMAIN jobs
    /\ jobs[response.id].status = "queued"
    /\ run[response.id].pc = "scheduled"

\* C14: a job whose input extension matched no capability is never completed
\* and no capability is invoked for it, and its dispatch ends with the job
\* failed with a recorded error message.
C14_UnknownCategoryFails ==
    /\ [](\A j \in DOMAIN jobs :
             jobs[j].meta.category = "unknown"
                 => /\ jobs[j].status # "completed"
                    /\ run[j].pc \notin {"converting", "returned"})
    /\ [][\A j \in DOMAIN jobs :
             (jobs[j].meta.category = "unknown" /\ run[j].pc = "dispatch" /\ run'[j].pc # "dispatch")
                 => /\ j \in DOMAIN jobs'
                    /\ run'[j].pc = "threw"
                    /\ FailedRecord(jobs'[j])
                    /\ jobs'[j].error = Some("Unsupported file type")]_vars

\* C14 witness: the job of an upload of unknown extension, failed by its run.
C14_Witness ==
    \E j \in DOMAIN jobs :
        /\ jobs[j].meta.category = "unknown"
        /\ run[j].pc = "threw"
        /\ jobs[j].status = "failed"
        /\ jobs[j].error = Some("Unsupported file type")

(***************************************************************************)
(* Properties of runLimited.                                               *)
(***************************************************************************)
\* The workers that have been started and have not settled.
InFlight == {i \in DOMAIN pool.worker : pool.worker[i] = "running"}

\* C15: at every instant the number of workers started and not yet settled
\* is at most limit.
C15_PoolBounded == Cardinality(InFlight) <= pool.limit

\* C15 witness: as many workers in flight as the limit allows, more than
\* one, with an item still waiting.
C15_Witness ==
    /\ pool.pc = "running"
    /\ pool.limit >= 2
    /\ Cardinality(InFlight) = pool.limit
    /\ pool.next < Len(pool.items)

\* C16: when the promise of runLimited is fulfilled, its value has the
\* length of items and holds at index k the result of the mapper on items[k].
C16_PoolResultsInOrder ==
    pool.promise.state = "fulfilled"
        => LET results == pool.promise.value[1]
           IN  /\ DOMAIN results = 1..Len(pool.items)
               /\ \A k \in 1..Len(pool.items) :
                     results[k] = Some(Converted(pool.items[k], k))

\* C16 witness: a fulfilled call over three items, not all equal, whose
\* workers completed in the reverse of the order of the items.
C16_Witness ==
    /\ pool.promise.state = "fulfilled"
    /\ pool.items = <<"a", "b", "a">>
    /\ pool.settled = <<3, 2, 1>>

\* C17: a worker that fails leaves the other workers as they are; the first
\* failure rejects the promise with that failure, and a rejected promise
\* stays rejected with it, so that no result is delivered once a worker failed.
C17_PoolFailsFast ==
    /\ []((\E i \in DOMAIN pool.worker : pool.worker[i] = "rejected")
              => pool.promise.state = "rejected")
    /\ [][/\ \A i \in DOMAIN pool.worker :
                (pool.worker[i] = "running" /\ pool'.worker[i] = "rejected")
                    => /\ (pool.promise.state = "pending"
                            => pool'.promise =
                                 [state |-> "rejected", value |-> Some(Failure(pool.items[i], i))])
                       /\ \A k \in DOMAIN pool.worker \ {i} : pool'.worker[k] = pool.worker[k]
           /\ (pool.promise.state = "rejected" => pool'.promise = pool.promise)]_vars

\* C17 witness: the call is rejected with the failure of the second item,
\* after which the first item, already started, completed and a later
\* failure occurred.
C17_Witness ==
    /\ pool.items = <<"a", "b", "a">>
    /\ pool.settled = <<2, 1, 3>>
    /\ pool.worker = <<"fulfilled", "rejected", "rejected">>
    /\ pool.results[1] # Null
    /\ pool.promise = [state |-> "rejected", value |-> Some(Failure("b", 2))]

(***************************************************************************)
(* Properties of parsePageRange.                                           *)
(***************************************************************************)
\* A range string of integers and start-end pairs only.
WellFormed(str) == str # Null /\ \A i \in DOMAIN str : str[i].kind \in {"pair", "int"}

StrictlyAscending(list) == \A i \in 1..(Len(list) - 1) : list[i] < list[i + 1]

\* C18: for a string of integers and pairs and totalPages n >= 1, what
\* parsePageRange returns is strictly ascending, so without duplicates, and
\* every value of it is in 1..n.
C18_RangeAscendingInBounds ==
    (parsed.pc = "parsed" /\ parsed.totalPages >= 1 /\ WellFormed(parsed.rangeStr))
        => /\ StrictlyAscending(parsed.result)
           /\ \A i \in DOMAIN parsed.result :
                 parsed.result[i] >= 1 /\ parsed.result[i] <= parsed.totalPages

\* C18 witness: "4-12,5,1-3,5" of a 10 page document: overlapping chunks, a
\* repeated page and pages beyond the document.
C18_Witness ==
    /\ parsed.pc = "parsed"
    /\ parsed.totalPages = 10
    /\ parsed.rangeStr = <<Pair(4, 12), Single(5), Pair(1, 3), Single(5)>>
    /\ parsed.result = <<1, 2, 3, 4, 5, 6, 7, 8, 9, 10>>

\* The string with its chunks i and i+1 exchanged, and with chunk i reversed.
SwapAt(str, i) ==
    [k \in DOMAIN str |-> IF k = i THEN str[i + 1] ELSE IF k = i + 1 THEN str[i] ELSE str[k]]

ReverseAt(str, i) == [str EXCEPT ![i] = [@ EXCEPT !.a = str[i].b, !.b = str[i].a]]

\* C19: what parsePageRange returns does not change when two neighbouring
\* chunks are exchanged (hence under any permutation), when a pair is
\* written in reverse, or when a chunk is repeated; and "3-1,5,5,2" of 10
\* pages gives 1, 2, 3, 5.
C19_RangeOrderIndependent ==
    (parsed.pc = "parsed" /\ parsed.rangeStr # Null)
        => LET str == parsed.rangeStr
               n == parsed.totalPages
           IN  /\ \A i \in 1..(Len(str) - 1) : parsePageRange(SwapAt(str, i), n) = parsed.result
               /\ \A i \in DOMAIN str :
                     str[i].kind = "pair" => parsePageRange(ReverseAt(str, i), n) = parsed.result
               /\ \A i \in DOMAIN str :
                     ~IsBlankString(str) => parsePageRange(Append(str, str[i]), n) = parsed.result
               /\ (str = <<Pair(3, 1), Single(5), Single(5), Single(2)>> /\ n = 10)
                     => parsed.result = <<1, 2, 3, 5>>

\* C19 witness: "3-1,5,5,2" of a 10 page document, parsed.
C19_Witness ==
    /\ parsed.pc = "parsed"
    /\ parsed.totalPages = 10
    /\ parsed.rangeStr = <<Pair(3, 1), Single(5), Single(5), Single(2)>>
    /\ parsed.result = <<1, 2, 3, 5>>

\* C20: parsePageRange of an empty or blank string returns the empty
\* sequence whatever totalPages is, and a PDF to PDF conversion whose
\* pageRange resolves to the empty sequence outputs every page of the source.
C20_EmptyRangeMeansAllPages ==
    /\ (parsed.pc = "parsed" /\ IsBlankString(parsed.rangeStr)) => parsed.result = <<>>
    /\ (parsed.pc = "converted"
           /\ parsePageRange(parsed.rangeStr, parsed.totalPages) = <<>>)
              => parsed.result = [i \in 1..parsed.totalPages |-> i]

\* C20 witness: "0,4-12" as the pageRange of a 3 page document: no page of
\* it is in range, and the output has the 3 pages.
C20_Witness ==
    /\ parsed.pc = "converted"
    /\ parsed.rangeStr = <<Single(0), Pair(4, 12)>>
    /\ parsed.totalPages = 3
    /\ parsed.result = <<1, 2, 3>>

(***************************************************************************)
(* Properties of the PDF page operations.                                  *)
(***************************************************************************)
\* Every listed page is a page of the document.
AllListedInRange(pages, doc) == \A i \in DOMAIN pages : pages[i] >= 1 /\ pages[i] <= Len(doc)

\* C21: for listed pages of the document, subsetPdf writes a document that
\* has exactly the listed pages in the order listed; for an empty list it
\* writes the pages of the source in their order.
C21_SubsetListedPages ==
    (pdf.pc = "returned" /\ pdf.op = "subset" /\ AllListedInRange(pdf.pages, pdf.docs[1]))
        => LET src == pdf.docs[1]
               out == pdf.outputs[1]
           IN  IF pdf.pages = <<>>
               THEN out = src
               ELSE /\ Len(out) = Len(pdf.pages)
                    /\ \A i \in DOMAIN pdf.pages : out[i] = <<src[1][1], pdf.pages[i]>>

\* C21 witness: pages 3, 1, 3 of a three page document, written in that order.
C21_Witness ==
    /\ pdf.pc = "returned"
    /\ pdf.op = "subset"
    /\ pdf.pages = <<3, 1, 3>>
    /\ pdf.outputs = << <<(<<"A", 3>>), (<<"A", 1>>), (<<"A", 3>>)>> >>

\* C22: subsetPdf called with a page outside 1..pageCount throws and writes
\* no document.
C22_SubsetRejectsOutOfRange ==
    (pdf.pc # "called" /\ pdf.op = "subset" /\ ~AllListedInRange(pdf.pages, pdf.docs[1]))
        => pdf.threw /\ pdf.outputs = <<>>

\* The ranges of the list that resolve to some page of the document.
RECURSIVE NonEmptyRanges(_, _)
NonEmptyRanges(rangeList, n) ==
    IF rangeList = <<>> THEN <<>>
    ELSE IF parsePageRange(Head(rangeList), n) = <<>> THEN NonEmptyRanges(Tail(rangeList), n)
    ELSE <<Head(rangeList)>> \o NonEmptyRanges(Tail(rangeList), n)

\* C23: splitPdf returns one document for each range that resolves to some
\* page, in the order of those ranges, each made of the resolved pages in
\* ascending order; a 10 page document split by "1-3" and "20-30" gives one
\* document, of pages 1 to 3.
C23_SplitOnePartPerNonEmptyRange ==
    (pdf.pc = "returned" /\ pdf.op = "split")
        => LET src == pdf.docs[1]
               kept == NonEmptyRanges(pdf.ranges, Len(src))
           IN  /\ Len(pdf.outputs) = Len(kept)
               /\ \A k \in DOMAIN kept :
                     LET pages == parsePageRange(kept[k], Len(src))
                     IN  /\ StrictlyAscending(pages)
                         /\ pdf.outputs[k] = [i \in DOMAIN pages |-> src[pages[i]]]
               /\ (Len(src) = 10 /\ pdf.ranges = << <<Pair(1, 3)>>, <<Pair(20, 30)>> >>)
                     => pdf.outputs = <<Doc("T", 3)>>

\* C23 witness: the 10 page document split by "1-3" and "20-30".
C23_Witness ==
    /\ pdf.pc = "returned"
    /\ pdf.op = "split"
    /\ Len(pdf.docs[1]) = 10
    /\ pdf.ranges = << <<Pair(1, 3)>>, <<Pair(20, 30)>> >>
    /\ Len(pdf.outputs) = 1

\* The number of pages of the documents of a list.
RECURSIVE TotalPages(_)
TotalPages(docs) == IF docs = <<>> THEN 0 ELSE Len(Head(docs)) + TotalPages(Tail(docs))

\* C24: mergePdfs writes the pages of its inputs, input after input in the
\* order of the array and each input in its own order, so as many pages as
\* the inputs have together.
C24_MergeConcatenates ==
    (pdf.pc = "returned" /\ pdf.op = "merge")
        => LET out == pdf.outputs[1]
           IN  /\ Len(out) = TotalPages(pdf.docs)
               /\ \A d \in DOMAIN pdf.docs : \A k \in DOMAIN pdf.docs[d] :
                     out[TotalPages(SubSeq(pdf.docs, 1, d - 1)) + k] = pdf.docs[d][k]

\* C24 witness: a three page document merged with a two page document.
C24_Witness ==
    /\ pdf.pc = "returned"
    /\ pdf.op = "merge"
    /\ pdf.docs = <<Doc("A", 3), Doc("B", 2)>>
    /\ pdf.outputs = << <<(<<"A", 1>>), (<<"A", 2>>), (<<"A", 3>>), (<<"B", 1>>), (<<"B", 2>>)>> >>

(***************************************************************************)
(* Properties of pdfToImagesViaLibreOffice.                                *)
(***************************************************************************)
\* C25: when pdfToImagesViaLibreOffice returns for a document of N pages,
\* the sequence it returns has N entries and its entry for page n is the
\* path {basename}_page-{n}.{ext}, whatever the concurrency and the order in
\* which the conversions completed.
C25_RasterPagesInOrder ==
    raster.pc = "returned"
        => LET images == raster.returned[1]
               n == Len(raster.singles)
           IN  /\ DOMAIN images = 1..n
               /\ \A k \in 1..n :
                     images[k] = Some(<<raster.base, "_page-", k,
                                        IF raster.imageFormat = "jpeg" THEN "jpg"
                                        ELSE raster.imageFormat>>)

\* C25 witness: a three page document returned after its pages completed in
\* the order 3, 1, 2, as jpeg images.
C25_Witness ==
    /\ raster.pc = "returned"
    /\ raster.imageFormat = "jpeg"
    /\ raster.settled = <<3, 1, 2>>
    /\ raster.returned[1][3] = Some(<<"doc", "_page-", 3, "jpg">>)

(***************************************************************************)
(* Properties of the progress callback.                                    *)
(***************************************************************************)
\* C26: after every progress update p, clamped to 0..100, made elapsed
\* milliseconds after the start: if p > 0 then etaSeconds is
\* max(0, round(elapsed / (p / 100) - elapsed)) in seconds, which is 0 when
\* elapsed = 0; if p = 0 then etaSeconds is null.
C26_EtaFollowsFormula ==
    \A j \in DOMAIN jobs :
        (run[j].pc = "converting" /\ run[j].elapsed # Null)
            => LET p == jobs[j].progress
                   ms == run[j].elapsed[1]
               IN  IF p > 0
                   THEN jobs[j].etaSeconds = Some(Max(0, RoundDiv(ms * (100 - p), 1000 * p)))
                   ELSE jobs[j].etaSeconds = Null

\* C27: in every reachable state every job has a progress in 0..100 and an
\* etaSeconds that is null or a non-negative integer, whatever the capability
\* passes to the progress callback.
C27_ProgressAndEtaInRange ==
    \A j \in DOMAIN jobs :
        /\ jobs[j].progress \in 0..100
        /\ jobs[j].etaSeconds = Null \/ jobs[j].etaSeconds[1] \in Nat
        /\ \A p \in EnginePercents, ms \in ElapsedMs :
              LET after == ProgressCallback(jobs[j], p, ms)
              IN  /\ after.progress \in 0..100
                  /\ after.etaSeconds = Null \/ after.etaSeconds[1] \in Nat

\* C27 witness: a capability has passed a negative number to the callback and
\* the job's progress is 0.
C27_Witness ==
    \E j \in DOMAIN jobs :
        /\ run[j].pc = "converting"
        /\ run[j].reported # Null
        /\ run[j].reported[1] < 0
        /\ jobs[j].progress = 0
        /\ jobs[j].etaSeconds = Null

(***************************************************************************)
(* Properties of detectCategory.                                           *)
(***************************************************************************)
\* The priority order of the categories.
CategoryOrder == <<"audio", "image", "document", "archive", "presentation", "font", "ebook">>

\* The first category in the order whose input formats contain e.
FirstCategory(e) ==
    LET hits == {i \in DOMAIN CategoryOrder : e \in SupportedInputs(CategoryOrder[i])}
    IN  IF hits = {} THEN "unknown"
        ELSE CategoryOrder[CHOOSE i \in hits : \A k \in hits : i <= k]

\* Extensions that several capabilities accept.
SharedExtensions == {"pdf", "epub", "txt", "html"}

\* C28: the category of every submitted file is the first category, in the
\* order audio, image, document, archive, presentation, font, ebook, whose
\* supported inputs contain the lower-cased extension of the file, or unknown
\* if none does; it depends on the lower-cased extension only, and pdf, epub,
\* txt and html resolve to document.
C28_CategoryIsFirstMatch ==
    /\ \A j \in JobIds :
          run[j].pc # "none"
              => /\ run[j].category = FirstCategory(toLowerCase(run[j].inputExt))
                 /\ j \in DOMAIN jobs => jobs[j].meta.category = run[j].category
                 /\ toLowerCase(run[j].inputExt) \in SharedExtensions
                        => run[j].category = "document"
    /\ \A e1, e2 \in UploadExts :
          toLowerCase(e1) = toLowerCase(e2) => detectCategory(e1) = detectCategory(e2)

\* C28 witness: an upload named with the extension Epub, which the document
\* and the ebook capabilities both accept, runs as a document job.
C28_Witness ==
    \E j \in DOMAIN jobs :
        /\ run[j].inputExt = "Epub"
        /\ run[j].pc = "converting"
        /\ jobs[j].meta.category = "document"

(***************************************************************************)
(* End to end: a PDF submitted with options.split.                         *)
(***************************************************************************)
\* The invocation of job j was given a PDF of ten pages and the option
\* split: ["1-5", "6-10"].
SplitTenPages(j) ==
    /\ toLowerCase(run[j].inputExt) = "pdf"
    /\ run[j].pages = 10
    /\ run[j].split = Some(<< <<Pair(1, 5)>>, <<Pair(6, 10)>> >>)

\* C29: a job submitted for a PDF of ten pages with the option
\* split: ["1-5", "6-10"] leaves, once its capability has returned, two
\* documents of five pages each, pages 1..5 and pages 6..10 of the upload, and
\* the job, unless it was cancelled, is completed with progress 100; the
\* capability itself rejects no such request for a supported output format.
C29_SplitEndToEnd ==
    \A j \in JobIds :
      /\ (SplitTenPages(j) /\ j \in DOMAIN jobs
            /\ jobs[j].meta.outputFormat \in DocumentOutputs)
            => ~run[j].call.throws
      /\ (SplitTenPages(j) /\ run[j].pc = "returned")
            => /\ Len(run[j].call.documents) = 2
               /\ \A k \in 1..2 :
                     /\ Len(run[j].call.documents[k]) = 5
                     /\ \A i \in 1..5 :
                           run[j].call.documents[k][i] = <<UploadPath(j), 5 * (k - 1) + i>>
               /\ run[j].call.writes = {PartPath(j, 1), PartPath(j, 2)}
               /\ (j \in DOMAIN jobs /\ jobs[j].status # "cancelled")
                     => (jobs[j].status = "completed" /\ jobs[j].progress = 100)
               /\ (j \in DOMAIN jobs /\ cancelling[j] = "idle" /\ jobs[j].status # "cancelled")
                     => {PartPath(j, 1), PartPath(j, 2)} \subseteq files

\* C29 witness: such a job is completed with progress 100 and its two parts
\* are on storage.
C29_Witness ==
    \E j \in DOMAIN jobs :
        /\ SplitTenPages(j)
        /\ run[j].pc = "returned"
        /\ jobs[j].status = "completed"
        /\ jobs[j].progress = 100
        /\ Len(run[j].call.documents) = 2
        /\ {PartPath(j, 1), PartPath(j, 2)} \subseteq files

(***************************************************************************)
(* Properties of GET /api/status/:jobId.                                   *)
(***************************************************************************)
\* C30: a status query for an id in the job table answers 200 with the id,
\* status, progress, etaSeconds, error and outputPath the job has at that
\* moment, a query for an id that is not in the table (never created, or
\* evicted) answers 404 'Job not found', and neither changes the job table
\* or the storage.
C30_StatusQueryReadsOnly ==
    [][\A j \in JobIds :
          (response'.req = "status" /\ response'.id = j)
              => /\ jobs' = jobs
                 /\ files' = files
                 /\ IF j \in DOMAIN jobs
                    THEN /\ response'.code = 200
                         /\ response'.snapshot =
                               Some([id |-> j,
                                     status |-> jobs[j].status,
                                     progress |-> jobs[j].progress,
                                     etaSeconds |-> jobs[j].etaSeconds,
                                     error |-> jobs[j].error,
                                     outputPath |-> jobs[j].outputPath])
                    ELSE /\ response'.code = 404
                         /\ response'.error = "Job not found"
                         /\ response'.snapshot = Null]_vars

\* C30 witness: a status query answered for a running job that has made
\* progress and has an estimate.
C30_Witness ==
    /\ response.req = "status"
    /\ response.code = 200
    /\ response.snapshot # Null
    /\ response.snapshot[1].status = "running"
    /\ response.snapshot[1].progress = 30
    /\ response.snapshot[1].etaSeconds = Some(5)

(***************************************************************************)
(* Properties of cancellation and of the artifacts on storage.             *)
(***************************************************************************)
\* C31: when a job was cancelled while running, its conversion has finished
\* (returned or thrown) and the cancel handler has done its unlinks, neither
\* the upload of the job nor an artifact written by the conversion is on
\* storage.
C31_CancelledLeavesNoArtifacts ==
    \A j \in DOMAIN jobs :
        (/\ jobs[j].status = "cancelled"
         /\ run[j].pc \in {"returned", "threw"}
         /\ cancelling[j] = "idle")
            => /\ UploadPath(j) \notin files
               /\ run[j].call.writes \cap files = {}

(***************************************************************************)
(* The sliding window of runLimited.                                       *)
(***************************************************************************)
\* C32: when a worker completes successfully while unstarted items remain,
\* the next unstarted item in input order, and no other, is started in the
\* same step, whatever the other workers are doing; the started items are
\* always a prefix of the input, and a worker that was started is never
\* started again.
C32_PoolSlidingWindow ==
    /\ [](\A i \in DOMAIN pool.worker : pool.worker[i] # "queued" <=> i <= pool.next)
    /\ [][/\ \A i \in DOMAIN pool.worker :
                (pool.worker[i] = "running" /\ pool'.worker[i] = "fulfilled"
                   /\ pool.next < Len(pool.items))
                    => /\ pool'.next = pool.next + 1
                       /\ pool'.worker[pool.next + 1] = "running"
                       /\ \A k \in DOMAIN pool.worker \ {i, pool.next + 1} :
                             pool'.worker[k] = pool.worker[k]
          /\ \A i \in DOMAIN pool.worker :
                (pool.worker[i] # "queued" /\ pool'.worker[i] = "running")
                    => pool.worker[i] = "running"]_vars

\* C32 witness: with a limit of two, the second item completed first and the
\* third item runs beside the first, which is still in flight.
C32_Witness ==
    /\ pool.pc = "running"
    /\ pool.limit = 2
    /\ Len(pool.items) = 3
    /\ pool.settled = <<2>>
    /\ pool.worker = <<"running", "fulfilled", "running">>

\* C33: once a worker has failed, no item that was not started yet is
\* started.
C33_PoolStartsNothingAfterFailure ==
    [][(\E i \in DOMAIN pool.worker : pool.worker[i] = "rejected")
          => \A k \in DOMAIN pool.worker :
                pool.worker[k] = "queued" => pool'.worker[k] = "queued"]_vars

(***************************************************************************)
(* parsePageRange on chunks that are not page numbers or ranges.           *)
(***************************************************************************)
\* Page p is named by chunk c, an integer or a start-end pair.
Names(c, p) ==
    \/ c.kind = "int" /\ c.a = p
    \/ c.kind = "pair" /\ Min(c.a, c.b) <= p /\ p <= Max(c.a, c.b)

\* C34: a chunk that is neither a single integer nor a start-end pair
\* contributes no page: every page parsePageRange returns is named by a chunk
\* that is an integer or a pair.
C34_InvalidChunksContributeNothing ==
    parsed.pc = "parsed"
        => \A k \in DOMAIN parsed.result :
              \E i \in DOMAIN parsed.rangeStr : Names(parsed.rangeStr[i], parsed.result[k])

\* C35: for a source document of 0 pages parsePageRange returns the empty
\* sequence, whatever the range string.
C35_NoPagesOfEmptyDocument ==
    (parsed.pc = "parsed" /\ parsed.totalPages = 0) => parsed.result = <<>>

(***************************************************************************)
(* The temporary single-page documents of pdfToImagesViaLibreOffice.       *)
(***************************************************************************)
\* C36: the workers have distinct single-page documents; the document of a
\* worker whose conversion is in flight exists, also after another worker
\* has failed; once the call has returned or thrown no single-page document
\* is left.
C36_SinglesOutliveTheirWorkers ==
    /\ raster.pc # "none"
          => /\ \A i, k \in DOMAIN raster.singles :
                   i # k => raster.singles[i].file # raster.singles[k].file
             /\ \A i \in DOMAIN raster.worker :
                   raster.worker[i] = "converting" => raster.singles[i].file \in raster.tmp
             /\ raster.pc \in {"returned", "threw"} => raster.tmp = {}

(***************************************************************************)
(* The entry test of runConversionJob.                                     *)
(***************************************************************************)
\* C37: a run that finds its job cancelled invokes no capability and leaves
\* the job as it is.  The nextTick callback of a submission runs before any
\* other request is handled, so that every run finds its job queued: no run
\* is skipped, and the case of the claim does not arise.
C37_RunFindsItsJobQueued ==
    \A j \in JobIds :
        /\ run[j].pc = "scheduled" => (j \in DOMAIN jobs /\ jobs[j].status = "queued")
        /\ (j \in DOMAIN jobs /\ jobs[j].status = "queued") => run[j].pc = "scheduled"
        /\ run[j].pc # "skipped"

(***************************************************************************)
(* Settlement of the worker pool.                                          *)
(***************************************************************************)
\* C38: when every started worker eventually settles, the promise of
\* runLimited is eventually fulfilled or rejected, for every sequence of
\* items, and for the empty sequence it is fulfilled with an empty result.
C38_PoolSettles ==
    /\ <>(pool.promise.state # "pending")
    /\ [](pool.items = <<>> => <>(pool.promise = [state |-> "fulfilled", value |-> Some(<<>>)]))

(***************************************************************************)
(* Termination of the jobs.                                                *)
(***************************************************************************)
\* C39: when every engine invocation eventually returns or fails, every job
\* that is running eventually is completed, failed or cancelled (or has been
\* downloaded and dropped from the table), whatever the options bag.
C39_RunningJobsEnd ==
    \A j \in JobIds :
        (j \in DOMAIN jobs /\ jobs[j].status = "running")
            ~> (j \notin DOMAIN jobs \/ jobs[j].status \in Terminal)

(***************************************************************************)
(* The recorded output location.                                           *)
(***************************************************************************)
\* C40: in every reachable state a job with an outputPath is completed, so
\* that a failed or cancelled job has none; and the job of a cancel request
\* that is accepted has no outputPath when the request is accepted.
C40_OutputOnlyWhenCompleted ==
    /\ [](\A j \in DOMAIN jobs : jobs[j].outputPath # Null => jobs[j].status = "completed")
    /\ [](\A j \in DOMAIN jobs :
             jobs[j].status \in {"failed", "cancelled"} => jobs[j].outputPath = Null)
    /\ [][\A j \in JobIds :
             (cancelling[j] = "idle" /\ cancelling'[j] = "cleanup")
                 => (j \in DOMAIN jobs /\ jobs[j].outputPath = Null)]_vars

\* C40 witness: a job cancelled while running whose conversion has returned
\* a path: the job stays cancelled and records no outputPath.
C40_Witness ==
    \E j \in DOMAIN jobs :
        /\ jobs[j].status = "cancelled"
        /\ run[j].pc = "returned"
        /\ run[j].call.result.type = "string"
        /\ ConvertedPath(j) \in files
        /\ jobs[j].outputPath = Null

====
